---- MODULE Spec2Model ----
(***************************************************************************)
(* Model of build_globaltech_analysis_final.py: a one-shot batch script    *)
(* that loads a sales table, validates its columns, computes aggregates    *)
(* with pandas, and writes a workbook of formulas and charts.              *)
(*                                                                         *)
(* Text cells are strings; a missing value (NaN) read from the file is the *)
(* string "NaN" (pandas reads that text as NaN as well).  Column letters   *)
(* are sequences of one-character strings, <<"A", "B">> for "AB".          *)
(* A parsed date is <<year, month>>, NaT is <<>>.                          *)
(***************************************************************************)
EXTENDS Integers, Sequences, FiniteSets, TLC

\* ---------------------------------------------------------------- bounds
MaxRows == 2
MaxWide == 11
MaxIdx == 702

\* ------------------------------------------------------------ user config
TOP_N_PRODUCTS == 10
TOP_N_CATEGORIES == 6
DASH_TABLE_ROW == 12
DASH_YEAR_START == 13

required ==
  <<"Order Date", "Category", "Sub-Category", "Product Name", "Manager",
    "Sales", "Order ID", "Customer ID">>

\* ---------------------------------------------------------------- helpers
Range(s) == {s[i] : i \in DOMAIN s}

Min2(a, b) == IF a <= b THEN a ELSE b
Max2(a, b) == IF a >= b THEN a ELSE b

RECURSIVE SumOver(_, _)
\* sum of f[x] over the finite set S
SumOver(S, f) ==
  IF S = {} THEN 0
  ELSE LET x == CHOOSE y \in S : TRUE IN f[x] + SumOver(S \ {x}, f)

\* Python's ordering of the strings used as names: position in this list.
NameOrder ==
  <<"", "A", "B", "C1", "C2", "C3", "C4", "C5", "C6", "C7",
    "NaN", "O1", "O2",
    "P01", "P02", "P03", "P04", "P05", "P06", "P07", "P08", "P09", "P10",
    "P11", "P12", "P13",
    "W01", "W02", "W03", "W04", "W05", "W06", "W07", "W08", "W09", "W10",
    "W11", "W12", "W13">>

NameIdx(s) == CHOOSE i \in DOMAIN NameOrder : NameOrder[i] = s

RECURSIVE SortedBy(_, _)
\* sorted(S) for a set whose elements are ordered by key[x]
SortedBy(S, key) ==
  IF S = {} THEN <<>>
  ELSE LET m == CHOOSE x \in S : \A y \in S : key[x] <= key[y]
       IN <<m>> \o SortedBy(S \ {m}, key)

SortedNames(S) == SortedBy(S, [x \in S |-> NameIdx(x)])
SortedInts(S) == SortedBy(S, [x \in S |-> x])

\* list.index(x), 0-based
IndexOf(seq, x) == (CHOOSE i \in DOMAIN seq : seq[i] = x) - 1

\* ---------------------------------------------------- col_idx_to_excel_col
Letters ==
  <<"A", "B", "C", "D", "E", "F", "G", "H", "I", "J", "K", "L", "M",
    "N", "O", "P", "Q", "R", "S", "T", "U", "V", "W", "X", "Y", "Z">>

\* chr(65 + rem)
Chr65(rem) == Letters[rem + 1]

\* One pass of the while-loop body: divmod, prepend the letter, then either
\* break (idx == 0) or decrement and go round again.
ColLoopBodyNoDecrement(idx, letters) ==
  LET q == idx \div 26
      rem == idx % 26
      l2 == <<Chr65(rem)>> \o letters
  IN [idx |-> q, letters |-> l2, done |-> (q = 0)]

ColLoopBody(idx, letters) ==
  LET q == idx \div 26
      rem == idx % 26
      l2 == <<Chr65(rem)>> \o letters
  IN IF q = 0 THEN [idx |-> q, letters |-> l2, done |-> TRUE]
     ELSE [idx |-> q - 1, letters |-> l2, done |-> FALSE]

RECURSIVE ColLoop(_, _)
ColLoop(idx, letters) ==
  LET s == ColLoopBody(idx, letters)
  IN IF s.done THEN s.letters ELSE ColLoop(s.idx, s.letters)

col_idx_to_excel_col(idx) == ColLoop(idx, <<>>)

\* How a spreadsheet reads column letters back: bijective base 26, 0-based.
Ord65(ch) == (CHOOSE i \in DOMAIN Letters : Letters[i] = ch) - 1

RECURSIVE ColumnNumber(_)
ColumnNumber(letters) ==
  IF letters = <<>> THEN 0
  ELSE 26 * ColumnNumber(SubSeq(letters, 1, Len(letters) - 1))
       + Ord65(letters[Len(letters)]) + 1

ColumnIndex(letters) == ColumnNumber(letters) - 1

\* ------------------------------------------------------------ input files
\* The values a cell of the input file holds, per column.
MgrTexts == <<"NaN", "A", "B">>
SalesVals == <<0, 100, 200>>

\* The other columns of a row come in four combinations.
Kinds ==
  << [od |-> "2011-01-05", cat |-> "C1", prod |-> "P01", oid |-> "O1"],
     [od |-> "2012-06-30", cat |-> "C2", prod |-> "P02", oid |-> "O2"],
     [od |-> "2011-01-05", cat |-> "C1", prod |-> "P02", oid |-> "NaN"],
     [od |-> "not-a-date", cat |-> "C2", prod |-> "P01", oid |-> "O1"] >>

MkRow(k, m, s) ==
  [od |-> k.od, cat |-> k.cat, prod |-> k.prod, mgr |-> m, sales |-> s,
   oid |-> k.oid]

NumRowKeys == Len(Kinds) * Len(MgrTexts) * Len(SalesVals)

RowOfKey(key) ==
  MkRow(Kinds[(key \div (Len(MgrTexts) * Len(SalesVals))) + 1],
        MgrTexts[((key \div Len(SalesVals)) % Len(MgrTexts)) + 1],
        SalesVals[(key % Len(SalesVals)) + 1])

\* Every table of at most MaxRows rows, one representative per multiset of
\* rows (nothing the script computes depends on the order of the rows).
SmallDatasets ==
  UNION { { [i \in 1..n |-> RowOfKey(ks[i])] :
            ks \in { f \in [1..n -> 0..(NumRowKeys - 1)] :
                       \A i \in 1..(n - 1) : f[i] <= f[i + 1] } } :
          n \in 0..MaxRows }

CatNames == <<"C1", "C2", "C3", "C4", "C5", "C6", "C7">>
ProdNames ==
  <<"P01", "P02", "P03", "P04", "P05", "P06", "P07", "P08", "P09", "P10",
    "P11", "P12", "P13">>
WideOids ==
  <<"W01", "W02", "W03", "W04", "W05", "W06", "W07", "W08", "W09", "W10",
    "W11", "W12", "W13">>

\* Tables with more distinct products than TOP_N_PRODUCTS and more categories
\* than the trend chart shows: row i sells product i for 100*i.
WideRow(i) ==
  [od |-> IF i % 2 = 1 THEN "2011-01-05" ELSE "2012-06-30",
   cat |-> CatNames[((i - 1) % Len(CatNames)) + 1],
   prod |-> ProdNames[i],
   mgr |-> IF i % 2 = 1 THEN "A" ELSE "B",
   sales |-> 100 * i,
   oid |-> WideOids[i]]

WideDatasets ==
  { [i \in 1..k |-> WideRow(i)] : k \in (TOP_N_PRODUCTS + 1)..MaxWide }

\* Headers: the required columns in order, some possibly absent, with or
\* without a leading extra column.
HeaderWith(present, extra) ==
  (IF extra THEN <<"Row ID">> ELSE <<>>)
    \o SelectSeq(required, LAMBDA c : c \in present)

FullHeaders == { HeaderWith(Range(required), e) : e \in BOOLEAN }
PartialHeaders ==
  { HeaderWith(p, e) : p \in (SUBSET Range(required)) \ {Range(required)},
                       e \in BOOLEAN }

NoFile == [exists |-> FALSE, header |-> <<>>, rows |-> <<>>]

InputFiles ==
  {NoFile}
  \cup { [exists |-> TRUE, header |-> h, rows |-> <<>>] : h \in PartialHeaders }
  \cup { [exists |-> TRUE, header |-> h, rows |-> d] :
         h \in FullHeaders, d \in SmallDatasets \cup WideDatasets }

\* ------------------------------------------------------------------ pandas
\* pd.to_datetime(..., errors="coerce"): the parsed <<year, month>>, or NaT.
ToDatetime(text) ==
  CASE text = "2011-01-05" -> <<2011, 1>>
    [] text = "2012-06-30" -> <<2012, 6>>
    [] OTHER -> <<>>

\* .dt.year / .dt.month: a one-element sequence, or <<>> for NaN.
DtYear(d) == IF d = <<>> THEN <<>> ELSE <<d[1]>>
DtMonth(d) == IF d = <<>> THEN <<>> ELSE <<d[2]>>

\* Series.fillna("")
FillNa(text) == IF text = "NaN" THEN "" ELSE text

\* Lines 40-45 applied to one row.
PrepareRow(r) ==
  LET d == ToDatetime(r.od)
  IN [od |-> d, cat |-> r.cat, prod |-> r.prod, mgr |-> FillNa(r.mgr),
      sales |-> r.sales, oid |-> r.oid, year |-> DtYear(d),
      month |-> DtMonth(d)]

\* df[col].sum() for the Sales column
SalesSum(rows) == SumOver(DOMAIN rows, [i \in DOMAIN rows |-> rows[i].sales])

\* df[col].dropna().unique() as a set
UniqueNonNa(rows, col) == {rows[i][col] : i \in DOMAIN rows} \ {"NaN"}

\* df[col].nunique()
NUnique(rows, col) == Cardinality(UniqueNonNa(rows, col))

\* sorted(df["Year"].dropna().unique())
YearsOf(rows) ==
  SortedInts({rows[i].year[1] : i \in {j \in DOMAIN rows : rows[j].year # <<>>}})

\* df.groupby(col)["Sales"].sum(): keys are the non-NaN values of col
GroupKeys(rows, col) == UniqueNonNa(rows, col)
GroupSum(rows, col, k) ==
  SalesSum(SelectSeq(rows, LAMBDA r : r[col] = k))

RECURSIVE DescOrders(_, _)
\* sort_values(ascending=False): every ordering of the keys with totals
\* non-increasing (the order among equal totals is the sort's choice)
DescOrders(S, tot) ==
  IF S = {} THEN {<<>>}
  ELSE UNION { { <<[k |-> m, v |-> tot[m]]>> \o rest :
                 rest \in DescOrders(S \ {m}, tot) } :
               m \in {x \in S : \A y \in S : tot[x] >= tot[y]} }

GroupTotals(rows, col) ==
  DescOrders(GroupKeys(rows, col),
             [k \in GroupKeys(rows, col) |-> GroupSum(rows, col, k)])

\* series.head(n) of a sorted series, as the list of its index
HeadN(seq, n) == SubSeq(seq, 1, Min2(n, Len(seq)))
IndexList(seq) == [i \in DOMAIN seq |-> seq[i].k]

\* A quotient kept exact as numerator over denominator.
Ratio(n, d) == [n |-> n, d |-> d]
RatioEq(a, b) == a.n * b.d = b.n * a.d

\* total_sales_val / total_orders if total_orders else 0
AvgOrderValue(total, orders) ==
  IF orders # 0 THEN Ratio(total, orders) ELSE Ratio(0, 1)

\* -------------------------------------------------------- workbook cells
\* What a cell holds: blank, a text, a number, or a formula.
Blank == [t |-> "b", s |-> "", n |-> 0]
Txt(s) == [t |-> "s", s |-> s, n |-> 0]
Num(n) == [t |-> "n", s |-> "", n |-> n]
Fml(f) == [t |-> "f", s |-> "", n |-> 0, f |-> f]

\* worksheet.write(): an empty string writes nothing visible, a string that
\* starts with "=" is stored as a formula (callers pass the formula record).
WriteText(s) == IF s = "" THEN Blank ELSE Txt(s)

\* An A1-style reference: column letters and 1-based row.
Ref(col, row) == [col |-> col, row |-> row]
\* $c1$r1:$c2$r2 on a sheet
Area(sheet, c1, r1, c2, r2) ==
  [sheet |-> sheet, c1 |-> c1, r1 |-> r1, c2 |-> c2, r2 |-> r2]

\* The cells (0-based row, 0-based column) an area covers; a spreadsheet
\* reads the two corners in either order.
AreaCells(a) ==
  { <<r, c>> :
      r \in (Min2(a.r1, a.r2) - 1)..(Max2(a.r1, a.r2) - 1),
      c \in Min2(ColumnIndex(a.c1), ColumnIndex(a.c2))
             ..Max2(ColumnIndex(a.c1), ColumnIndex(a.c2)) }

RefCell(ref) == <<ref.row - 1, ColumnIndex(ref.col)>>

EmptyCells == [rc \in {} |-> Blank]
EmptySheet == [cells |-> EmptyCells, charts |-> <<>>]

\* ---------------------------------------------------------- the Data sheet
\* df.to_excel(index=False): the cell of row i under the column `name`.
\* NaN / NaT are written as blank cells.  Columns the script never reads
\* hold a fixed text.
DataCell(row, name, i) ==
  CASE name = "Order Date" ->
         IF row.od = <<>> THEN Blank ELSE Num(row.od[1] * 100 + row.od[2])
    [] name = "Category" -> IF row.cat = "NaN" THEN Blank ELSE WriteText(row.cat)
    [] name = "Product Name" ->
         IF row.prod = "NaN" THEN Blank ELSE WriteText(row.prod)
    [] name = "Manager" -> IF row.mgr = "NaN" THEN Blank ELSE WriteText(row.mgr)
    [] name = "Sales" -> Num(row.sales)
    [] name = "Order ID" -> IF row.oid = "NaN" THEN Blank ELSE WriteText(row.oid)
    [] name = "Year" -> IF row.year = <<>> THEN Blank ELSE Num(row.year[1])
    [] name = "Month" -> IF row.month = <<>> THEN Blank ELSE Num(row.month[1])
    [] name = "Row ID" -> Num(i)
    [] OTHER -> Txt("-")

\* The whole column Data!$X:$X, header cell first.
DataColumn(data, letters) ==
  LET ci == ColumnIndex(letters)
  IN IF ci + 1 \in DOMAIN data.header
     THEN <<Txt(data.header[ci + 1])>>
            \o [i \in DOMAIN data.rows |->
                  DataCell(data.rows[i], data.header[ci + 1], i)]
     ELSE [i \in 1..(Len(data.rows) + 1) |-> Blank]

\* {name: col_idx_to_excel_col(idx) for name, idx in col_map.items()}
ExcelColLetters(header) ==
  [name \in Range(header) |-> col_idx_to_excel_col(IndexOf(header, name))]

\* -------------------------------------------------- spreadsheet functions
NumOf(cell) == IF cell.t = "n" THEN cell.n ELSE 0

\* =SUM(Data!$X:$X)
XlSum(data, col) ==
  LET c == DataColumn(data, col)
  IN SumOver(DOMAIN c, [i \in DOMAIN c |-> NumOf(c[i])])

\* =COUNTA(Data!$X:$X): the non-empty cells, the header among them
XlCountA(data, col) ==
  LET c == DataColumn(data, col)
  IN Cardinality({i \in DOMAIN c : c[i].t # "b"})

\* =SUMIF(Data!$K:$K, "crit", Data!$S:$S)
XlSumIf(data, critCol, crit, sumCol) ==
  LET k == DataColumn(data, critCol)
      v == DataColumn(data, sumCol)
  IN SumOver({i \in DOMAIN k : k[i].t = "s" /\ k[i].s = crit},
             [i \in DOMAIN k |-> NumOf(v[i])])

\* =SUMIFS(Data!$S:$S, Data!$K:$K, "crit", Data!$Y:$Y, year)
XlSumIfs(data, sumCol, critCol, crit, yearCol, year) ==
  LET k == DataColumn(data, critCol)
      y == DataColumn(data, yearCol)
      v == DataColumn(data, sumCol)
  IN SumOver({i \in DOMAIN k : /\ k[i].t = "s" /\ k[i].s = crit
                               /\ y[i].t = "n" /\ y[i].n = year},
             [i \in DOMAIN k |-> NumOf(v[i])])

\* =SUMIFS(Data!$S:$S, Data!$Y:$Y, year)
XlSumIfYear(data, sumCol, yearCol, year) ==
  LET y == DataColumn(data, yearCol)
      v == DataColumn(data, sumCol)
  IN SumOver({i \in DOMAIN y : y[i].t = "n" /\ y[i].n = year},
             [i \in DOMAIN y |-> NumOf(v[i])])

\* The value a cell of a report sheet shows when its formulas read only the
\* Data sheet (or, for a SUMIFS criterion, a text cell of its own sheet).
DataValue(cells, data, rc) ==
  IF rc \notin DOMAIN cells THEN Blank
  ELSE LET c == cells[rc]
       IN IF c.t # "f" THEN c
          ELSE CASE c.f.fn = "SUMIF" ->
                      Num(XlSumIf(data, c.f.critCol, c.f.crit, c.f.sumCol))
                 [] c.f.fn = "SUMIFS" ->
                      Num(XlSumIfs(data, c.f.sumCol, c.f.critCol,
                                   IF c.f.critRef
                                   THEN (IF RefCell(c.f.crit) \in DOMAIN cells
                                         THEN cells[RefCell(c.f.crit)].s
                                         ELSE "")
                                   ELSE c.f.crit,
                                   c.f.yearCol, c.f.year))
                 [] c.f.fn = "SUMIFYEAR" ->
                      Num(XlSumIfYear(data, c.f.sumCol, c.f.yearCol, c.f.year))
                 [] c.f.fn = "SUM" -> Num(XlSum(data, c.f.col))
                 [] c.f.fn = "COUNTA-1" -> Num(XlCountA(data, c.f.col) - 1)
                 [] OTHER -> Blank

\* The numbers in an area of a sheet
AreaNumbers(cells, data, a) ==
  {rc \in AreaCells(a) : DataValue(cells, data, rc).t = "n"}

\* =SUM(area) over cells of the same sheet
XlSumArea(cells, data, a) ==
  SumOver(AreaNumbers(cells, data, a),
          [rc \in AreaNumbers(cells, data, a) |-> DataValue(cells, data, rc).n])

\* =RANK(ref, area, 0): one plus the count of numbers in the area above it
XlRankDesc(cells, data, ref, a) ==
  LET x == DataValue(cells, data, RefCell(ref)).n
  IN 1 + Cardinality({rc \in AreaNumbers(cells, data, a) :
                        DataValue(cells, data, rc).n > x})

\* =ref/SUM(area): the quotient, or #DIV/0! when the sum is 0
XlDivSum(cells, data, ref, a) ==
  LET s == XlSumArea(cells, data, a)
  IN IF s = 0 THEN [err |-> TRUE, q |-> Ratio(0, 1)]
     ELSE [err |-> FALSE,
           q |-> Ratio(DataValue(cells, data, RefCell(ref)).n, s)]

\* =IFERROR(SUM(Data!$S:$S)/COUNTA(Data!$O:$O), 0)
XlIfErrorDiv(data, sumCol, cntCol) ==
  IF XlCountA(data, cntCol) = 0 THEN Ratio(0, 1)
  ELSE Ratio(XlSum(data, sumCol), XlCountA(data, cntCol))

\* ------------------------------------------------------- validation step
\* for c in required: if c not in df.columns: raise ValueError(... c ...)
MissingRequired(header) ==
  SelectSeq(required, LAMBDA c : c \notin Range(header))

NoError == [kind |-> "none", col |-> ""]

RequiredCheckNamesLast(header) ==
  LET missing == MissingRequired(header)
  IN IF missing = <<>> THEN NoError
     ELSE [kind |-> "ValueError", col |-> missing[Len(missing)]]

RequiredCheckSkipsLast(header) ==
  LET missing == SelectSeq(SubSeq(required, 1, Len(required) - 1),
                           LAMBDA c : c \notin Range(header))
  IN IF missing = <<>> THEN NoError
     ELSE [kind |-> "ValueError", col |-> missing[1]]

\* The error the loop raises: the first required column that is absent.
RequiredCheck(header) ==
  LET missing == MissingRequired(header)
  IN IF missing = <<>> THEN NoError
     ELSE [kind |-> "ValueError", col |-> missing[1]]

\* ------------------------------------------------------------ sheet names
sheet_data == "Data"
sheet_mgr == "Manager Performance"
sheet_cat == "Category Trends"
sheet_prod == "Top Products"
sheet_dash == "Dashboard"
sheet_find == "Findings & Recommendations"

ColA == <<"A">>
ColB == <<"B">>

Series(name, cats, vals) == [name |-> name, categories |-> cats, values |-> vals]

\* ------------------------------------------------ Manager Performance sheet
\* sorted(df["Manager"].replace("", pd.NA).dropna().unique())
ManagersOf(rows) == SortedNames(UniqueNonNa(rows, "mgr") \ {""})

ManagerSumIfWrongColumn(mgr, L) ==
  [fn |-> "SUMIF", critCol |-> L["Order ID"], crit |-> mgr,
   sumCol |-> L["Sales"]]

\* =SUMIF(Data!$M:$M,"mgr",Data!$S:$S)
ManagerSumIf(mgr, L) ==
  [fn |-> "SUMIF", critCol |-> L["Manager"], crit |-> mgr,
   sumCol |-> L["Sales"]]

RankFormulaShortArea(r, n) ==
  [fn |-> "RANK", ref |-> Ref(ColB, r + 1),
   area |-> Area(sheet_mgr, ColB, 2, ColB, n)]

\* =RANK(B{r+1},$B$2:$B${1+len(managers)},0)
RankFormula(r, n) ==
  [fn |-> "RANK", ref |-> Ref(ColB, r + 1),
   area |-> Area(sheet_mgr, ColB, 2, ColB, 1 + n)]

\* Formats, column widths, conditional formats and the HIGHLIGHT_MANAGER
\* rewrite (the same name and formula, with a format) change no cell content.
ManagerSheet(rows, L) ==
  LET managers == ManagersOf(rows)
      n == Len(managers)
  IN [cells |->
        [rc \in (0..n) \X (0..3) |->
           IF rc[1] = 0
           THEN Txt(<<"Manager", "Sales (calc)", "Excel Formula", "Rank">>[rc[2] + 1])
           ELSE CASE rc[2] = 0 -> WriteText(managers[rc[1]])
                  [] rc[2] = 3 -> Fml(RankFormula(rc[1], n))
                  [] OTHER -> Fml(ManagerSumIf(managers[rc[1]], L))],
      charts |->
        << <<Series("Sales by Manager",
                    Area(sheet_mgr, ColA, 2, ColA, 1 + n),
                    Area(sheet_mgr, ColB, 2, ColB, 1 + n))>> >>]

\* --------------------------------------------------- Category Trends sheet
CategoriesOf(rows) == SortedNames(UniqueNonNa(rows, "cat"))

\* =SUMIFS(sales, category column, $A{i+1} or "cat", year column, year)
CategorySumIfs(L, critRef, crit, year) ==
  [fn |-> "SUMIFS", sumCol |-> L["Sales"], critCol |-> L["Category"],
   critRef |-> critRef, crit |-> crit, yearCol |-> L["Year"], year |-> year]

\* The series of chart_line for the helper-table row i (0-based)
TrendSeries(i, start_row, ny) ==
  Series(Ref(ColA, i + 1),
         Area(sheet_cat, ColB, start_row, ColB, start_row + ny - 1),
         Area(sheet_cat, ColB, i + 1, col_idx_to_excel_col(1 + ny), i + 1))

CategorySheet(rows, L, cat_totals) ==
  LET years == YearsOf(rows)
      ny == Len(years)
      categories == CategoriesOf(rows)
      nc == Len(categories)
      top_cats == IndexList(HeadN(cat_totals, TOP_N_CATEGORIES))
      nt == Len(top_cats)
      start_row == nc + 3
      table == (0..nc) \X (0..ny)
      helperRows == (start_row - 1)..(start_row - 1 + nt)
  IN [cells |->
        [rc \in table \cup (helperRows \X (0..ny)) |->
           IF rc \in table
           THEN CASE rc = <<0, 0>> -> Txt("Category \\ Year")
                  [] rc[1] = 0 -> Num(years[rc[2]])
                  [] rc[2] = 0 -> WriteText(categories[rc[1]])
                  [] OTHER ->
                       Fml(CategorySumIfs(L, TRUE, Ref(ColA, rc[1] + 1),
                                          years[rc[2]]))
           ELSE CASE rc = <<start_row - 1, 0>> -> Txt("Category")
                  [] rc[1] = start_row - 1 -> Num(years[rc[2]])
                  [] rc[2] = 0 -> WriteText(top_cats[rc[1] - start_row + 1])
                  [] OTHER ->
                       Fml(CategorySumIfs(L, FALSE,
                                          top_cats[rc[1] - start_row + 1],
                                          years[rc[2]]))],
      charts |->
        << [k \in 1..nt |-> TrendSeries(start_row + k - 1, start_row, ny)] >>]

\* -------------------------------------------------------- Top Products sheet
ProductSumIf(p, L) ==
  [fn |-> "SUMIF", critCol |-> L["Product Name"], crit |-> p,
   sumCol |-> L["Sales"]]

ShareFormulaShortArea(i, n) ==
  [fn |-> "DIVSUM", ref |-> Ref(ColB, i + 1),
   area |-> Area(sheet_prod, ColB, 2, ColB, n)]

\* =B{i+1}/SUM($B$2:$B${1+len(prod_list)})
ShareFormula(i, n) ==
  [fn |-> "DIVSUM", ref |-> Ref(ColB, i + 1),
   area |-> Area(sheet_prod, ColB, 2, ColB, 1 + n)]

ProductSheet(L, prod_totals) ==
  LET prod_list == IndexList(HeadN(prod_totals, TOP_N_PRODUCTS))
      n == Len(prod_list)
  IN [cells |->
        [rc \in (0..n) \X (0..2) |->
           IF rc[1] = 0
           THEN Txt(<<"Product Name", "Sales (calc)", "% of Total">>[rc[2] + 1])
           ELSE CASE rc[2] = 0 -> WriteText(prod_list[rc[1]])
                  [] rc[2] = 1 -> Fml(ProductSumIf(prod_list[rc[1]], L))
                  [] OTHER -> Fml(ShareFormula(rc[1], n))],
      charts |->
        << <<Series("Top Products Share",
                    Area(sheet_prod, ColA, 2, ColA, 1 + n),
                    Area(sheet_prod, ColB, 2, ColB, 1 + n))>> >>]

\* ------------------------------------------------------------ Dashboard
DashboardSheet(rows, L, distinct_managers, nManagers, nProducts) ==
  LET years == YearsOf(rows)
      ny == Len(years)
      kpi == (0..4) \X (0..1)
      \* enumerate(years, start=13) writes row i-1
      yearRows == (DASH_YEAR_START - 1)..(DASH_YEAR_START - 2 + ny)
      yearly == ({DASH_TABLE_ROW} \cup yearRows) \X (0..1)
  IN [cells |->
        [rc \in kpi \cup yearly |->
           IF rc \in kpi
           THEN CASE rc = <<0, 0>> -> Txt("KPI")
                  [] rc = <<0, 1>> -> Txt("Value")
                  [] rc = <<1, 0>> -> Txt("Total Sales (2011-2014)")
                  [] rc = <<1, 1>> -> Fml([fn |-> "SUM", col |-> L["Sales"]])
                  [] rc = <<2, 0>> -> Txt("Total Orders")
                  [] rc = <<2, 1>> ->
                       Fml([fn |-> "COUNTA-1", col |-> L["Order ID"]])
                  [] rc = <<3, 0>> -> Txt("Total Managers")
                  [] rc = <<3, 1>> -> Num(distinct_managers)
                  [] rc = <<4, 0>> -> Txt("Average Order Value")
                  [] OTHER ->
                       Fml([fn |-> "IFERRORDIV", sumCol |-> L["Sales"],
                            cntCol |-> L["Order ID"]])
           \* the later write to a cell replaces the earlier one
           ELSE IF rc[1] \in yearRows
           THEN IF rc[2] = 0
                THEN Num(years[rc[1] - (DASH_YEAR_START - 1) + 1])
                ELSE Fml([fn |-> "SUMIFYEAR", sumCol |-> L["Sales"],
                          yearCol |-> L["Year"],
                          year |-> years[rc[1] - (DASH_YEAR_START - 1) + 1]])
           ELSE Txt(<<"Year", "Sales">>[rc[2] + 1])],
      charts |->
        << <<Series("Sales by Manager",
                    Area(sheet_mgr, ColA, 2, ColA, 1 + nManagers),
                    Area(sheet_mgr, ColB, 2, ColB, 1 + nManagers))>>,
           <<Series("Top Products",
                    Area(sheet_prod, ColA, 2, ColA, 1 + nProducts),
                    Area(sheet_prod, ColB, 2, ColB, 1 + nProducts))>>,
           <<Series("Sales by Year",
                    Area(sheet_dash, ColA, 13, ColA, 12 + ny),
                    Area(sheet_dash, ColB, 13, ColB, 12 + ny))>> >>]

\* ---------------------------------------------------------------- state
VARIABLES
  inputFile,   \* the file at INPUT_FILE: exists, header, rows
  outFile,     \* the file at OUTPUT_FILE: "untouched", "open", "saved"
  pc,          \* the statement the script is at
  error,       \* the exception that ended the run, if any
  df,          \* the DataFrame
  agg,         \* the aggregates computed with pandas
  wb,          \* the workbook being built
  cin, cidx, cletters, cpc   \* one call of col_idx_to_excel_col

vars == <<inputFile, outFile, pc, error, df, agg, wb, cin, cidx, cletters, cpc>>
scriptVars == <<inputFile, outFile, pc, error, df, agg, wb>>
colVars == <<cin, cidx, cletters, cpc>>

NoDf == [loaded |-> FALSE, header |-> <<>>, rows |-> <<>>]

NoAgg ==
  [done |-> {},
   total_sales_val |-> 0, total_orders |-> 0, distinct_managers |-> 0,
   avg_order_value |-> Ratio(0, 1),
   years |-> <<>>, first_year |-> 0, last_year |-> 0,
   cat_totals |-> <<>>, mgr_totals |-> <<>>, prod_totals |-> <<>>,
   top_category |-> "None", top_manager |-> "None", top_manager_sales |-> 0,
   top_product |-> "None", top_product_share |-> Ratio(0, 1)]

NoFindings ==
  [total_sales |-> 0, total_orders |-> 0, distinct_managers |-> 0,
   avg_order_value |-> Ratio(0, 1), sections |-> {}]

NoWorkbook ==
  [open |-> FALSE, sheets |-> <<>>,
   data |-> [header |-> <<>>, rows |-> <<>>],
   letters |-> [name \in {} |-> <<>>],
   mgr |-> EmptySheet, cat |-> EmptySheet, prod |-> EmptySheet,
   dash |-> EmptySheet, find |-> NoFindings]

ScriptInit ==
  /\ inputFile \in InputFiles
  /\ outFile = "untouched"
  /\ pc = "check_file"
  /\ error = NoError
  /\ df = NoDf
  /\ agg = NoAgg
  /\ wb = NoWorkbook

Init ==
  /\ ScriptInit
  /\ cin = 0 /\ cidx = 0 /\ cletters = <<>> /\ cpc = "idle"

Raise(kind, col) ==
  /\ pc' = "failed"
  /\ error' = [kind |-> kind, col |-> col]

\* if not os.path.exists(INPUT_FILE): raise FileNotFoundError
CheckFile ==
  /\ pc = "check_file"
  /\ IF inputFile.exists
     THEN pc' = "load" /\ UNCHANGED error
     ELSE Raise("FileNotFoundError", "")
  /\ UNCHANGED <<inputFile, outFile, df, agg, wb, colVars>>

\* df = pd.read_csv(...) / pd.read_excel(...)
Load ==
  /\ pc = "load"
  /\ df' = [loaded |-> TRUE, header |-> inputFile.header,
            rows |-> inputFile.rows]
  /\ pc' = "validate"
  /\ UNCHANGED <<inputFile, outFile, error, agg, wb, colVars>>

\* Required columns check
Validate ==
  /\ pc = "validate"
  /\ LET e == RequiredCheck(df.header)
     IN IF e = NoError
        THEN pc' = "prepare" /\ UNCHANGED error
        ELSE Raise(e.kind, e.col)
  /\ UNCHANGED <<inputFile, outFile, df, agg, wb, colVars>>

\* Order Date coerced to dates, Year and Month columns added, Manager filled
Prepare ==
  /\ pc = "prepare"
  /\ df' = [df EXCEPT !.header = df.header \o <<"Year", "Month">>,
                      !.rows = [i \in DOMAIN df.rows |-> PrepareRow(df.rows[i])]]
  /\ pc' = "aggregate"
  /\ UNCHANGED <<inputFile, outFile, error, agg, wb, colVars>>

\* total_sales_val, total_orders, distinct_managers, avg_order_value
Aggregate ==
  /\ pc = "aggregate"
  /\ LET total == SalesSum(df.rows)
         orders == NUnique(df.rows, "oid")
     IN agg' = [agg EXCEPT !.done = @ \cup {"basic"},
                           !.total_sales_val = total,
                           !.total_orders = orders,
                           !.distinct_managers = NUnique(df.rows, "mgr"),
                           !.avg_order_value = AvgOrderValue(total, orders)]
  /\ pc' = "years"
  /\ UNCHANGED <<inputFile, outFile, error, df, wb, colVars>>

\* years = sorted(...); first_year = int(years[0]); last_year = int(years[-1])
Years ==
  /\ pc = "years"
  /\ LET years == YearsOf(df.rows)
     IN IF years = <<>>
        THEN Raise("IndexError", "") /\ UNCHANGED agg
        ELSE /\ agg' = [agg EXCEPT !.done = @ \cup {"years"},
                                   !.years = years,
                                   !.first_year = years[1],
                                   !.last_year = years[Len(years)]]
             /\ pc' = "groups"
             /\ UNCHANGED error
  /\ UNCHANGED <<inputFile, outFile, df, wb, colVars>>

\* cat_totals, mgr_totals, prod_totals and the top of each
Groups ==
  /\ pc = "groups"
  /\ \E ct \in GroupTotals(df.rows, "cat"),
        mt \in GroupTotals(df.rows, "mgr"),
        pt \in GroupTotals(df.rows, "prod") :
       agg' = [agg EXCEPT
                 !.done = @ \cup {"groups"},
                 !.cat_totals = ct, !.mgr_totals = mt, !.prod_totals = pt,
                 !.top_category = IF ct # <<>> THEN ct[1].k ELSE "None",
                 !.top_manager = IF mt # <<>> THEN mt[1].k ELSE "None",
                 !.top_manager_sales = IF mt # <<>> THEN mt[1].v ELSE 0,
                 !.top_product = IF pt # <<>> THEN pt[1].k ELSE "None",
                 !.top_product_share =
                    IF agg.total_sales_val # 0
                    THEN Ratio(pt[1].v, agg.total_sales_val)
                    ELSE Ratio(0, 1)]
  /\ pc' = "open_writer"
  /\ UNCHANGED <<inputFile, outFile, error, df, wb, colVars>>

\* with pd.ExcelWriter(OUTPUT_FILE, ...): df.to_excel(..., "Data"); letters
OpenWriter ==
  /\ pc = "open_writer"
  /\ outFile' = "open"
  /\ wb' = [wb EXCEPT !.open = TRUE,
                      !.sheets = <<sheet_data>>,
                      !.data = [header |-> df.header, rows |-> df.rows],
                      !.letters = ExcelColLetters(df.header)]
  /\ pc' = "mgr_sheet"
  /\ UNCHANGED <<inputFile, error, df, agg, colVars>>

WriteManagerSheet ==
  /\ pc = "mgr_sheet"
  /\ wb' = [wb EXCEPT !.sheets = Append(@, sheet_mgr),
                      !.mgr = ManagerSheet(df.rows, wb.letters)]
  /\ pc' = "cat_sheet"
  /\ UNCHANGED <<inputFile, outFile, error, df, agg, colVars>>

WriteCategorySheet ==
  /\ pc = "cat_sheet"
  /\ wb' = [wb EXCEPT !.sheets = Append(@, sheet_cat),
                      !.cat = CategorySheet(df.rows, wb.letters, agg.cat_totals)]
  /\ pc' = "prod_sheet"
  /\ UNCHANGED <<inputFile, outFile, error, df, agg, colVars>>

WriteProductSheet ==
  /\ pc = "prod_sheet"
  /\ wb' = [wb EXCEPT !.sheets = Append(@, sheet_prod),
                      !.prod = ProductSheet(wb.letters, agg.prod_totals)]
  /\ pc' = "dash_sheet"
  /\ UNCHANGED <<inputFile, outFile, error, df, agg, colVars>>

WriteDashboard ==
  /\ pc = "dash_sheet"
  /\ wb' = [wb EXCEPT
              !.sheets = Append(@, sheet_dash),
              !.dash = DashboardSheet(
                         df.rows, wb.letters, agg.distinct_managers,
                         Len(ManagersOf(df.rows)),
                         Len(HeadN(agg.prod_totals, TOP_N_PRODUCTS)))]
  /\ pc' = "find_sheet"
  /\ UNCHANGED <<inputFile, outFile, error, df, agg, colVars>>

\* `if top_manager:` and the like: None and "" are both false
Truthy(name) == name \notin {"None", ""}

\* The Executive Summary lines and the sections that follow them
WriteFindings ==
  /\ pc = "find_sheet"
  /\ wb' = [wb EXCEPT
              !.sheets = Append(@, sheet_find),
              !.find = [total_sales |-> agg.total_sales_val,
                        total_orders |-> agg.total_orders,
                        distinct_managers |-> agg.distinct_managers,
                        avg_order_value |-> agg.avg_order_value,
                        sections |->
                          {"Executive Summary", "Recommendations Framework",
                           "Notes"}
                          \cup (IF Truthy(agg.top_manager)
                                THEN {"Manager Performance"} ELSE {})
                          \cup (IF Truthy(agg.top_category)
                                THEN {"Category Trends"} ELSE {})
                          \cup (IF Truthy(agg.top_product)
                                THEN {"Top Product"} ELSE {})]]
  /\ pc' = "close"
  /\ UNCHANGED <<inputFile, outFile, error, df, agg, colVars>>

\* leaving the with-block saves the workbook
CloseWriter ==
  /\ pc = "close"
  /\ wb' = [wb EXCEPT !.open = FALSE]
  /\ outFile' = "saved"
  /\ pc' = "done"
  /\ UNCHANGED <<inputFile, error, df, agg, colVars>>

Next ==
  \/ CheckFile
  \/ Load
  \/ Validate
  \/ Prepare
  \/ Aggregate
  \/ Years
  \/ Groups
  \/ OpenWriter
  \/ WriteManagerSheet
  \/ WriteCategorySheet
  \/ WriteProductSheet
  \/ WriteDashboard
  \/ WriteFindings
  \/ CloseWriter

Spec == Init /\ [][Next]_vars

\* ------------------------------------- col_idx_to_excel_col, step by step
ColInit ==
  /\ inputFile = NoFile
  /\ outFile = "untouched"
  /\ pc = "check_file"
  /\ error = NoError
  /\ df = NoDf
  /\ agg = NoAgg
  /\ wb = NoWorkbook
  /\ cin \in 0..MaxIdx
  /\ cidx = cin
  /\ cletters = <<>>
  /\ cpc = "loop"

\* one pass of `while True:`
ColIter ==
  /\ cpc = "loop"
  /\ LET s == ColLoopBody(cidx, cletters)
     IN /\ cidx' = s.idx
        /\ cletters' = s.letters
        /\ cpc' = IF s.done THEN "return" ELSE "loop"
  /\ UNCHANGED <<cin, scriptVars>>

NextCol == ColIter

SpecCol == ColInit /\ [][NextCol]_vars /\ WF_vars(ColIter)

\* =================================================================== claims
\* What the finished workbook shows.
ListedRows(cells) == {rc[1] : rc \in {x \in DOMAIN cells : x[1] >= 1}}
Shown(cells, rc) == DataValue(cells, wb.data, rc)
Validated == df.loaded /\ \A c \in Range(required) : c \in Range(df.header)

\* ----------------------------------------------------------------- C1
\* C1: when a required column is absent from the loaded dataset the run ends
\* in a ValueError naming a column that is really missing, namely the first
\* missing one in the order of the required list, and such a run never gets
\* past the check.
C1_MissingColumnRaises ==
  (df.loaded /\ \E c \in Range(required) : c \notin Range(inputFile.header))
  => /\ pc \in {"validate", "failed"}
     /\ pc = "failed" =>
          /\ error.kind = "ValueError"
          /\ \E i \in DOMAIN required :
               /\ required[i] = error.col
               /\ required[i] \notin Range(inputFile.header)
               /\ \A j \in 1..(i - 1) : required[j] \in Range(inputFile.header)

C1_Witness ==
  /\ pc = "failed"
  /\ error = [kind |-> "ValueError", col |-> "Category"]
  /\ "Order Date" \in Range(df.header)
  /\ "Sales" \notin Range(df.header)
  /\ "Customer ID" \notin Range(df.header)

\* ----------------------------------------------------------------- C2
\* C2: a missing input file fails the run before the dataset is loaded, and
\* a missing file or missing required column fails it before any aggregate
\* is computed and before the output workbook is opened or a sheet written;
\* the output file is left untouched.
C2_FailsBeforeProcessing ==
  /\ ~inputFile.exists =>
       /\ ~df.loaded
       /\ pc \in {"check_file", "failed"}
       /\ pc = "failed" => error.kind = "FileNotFoundError"
  /\ (\/ ~inputFile.exists
      \/ \E c \in Range(required) : c \notin Range(inputFile.header)) =>
       /\ agg = NoAgg
       /\ wb = NoWorkbook
       /\ outFile = "untouched"
       /\ pc \in {"check_file", "load", "validate", "failed"}
  /\ error.kind \in {"FileNotFoundError", "ValueError"} =>
       agg = NoAgg /\ wb = NoWorkbook /\ outFile = "untouched"

C2_Witness ==
  /\ pc = "failed"
  /\ error.kind = "ValueError"
  /\ error.col = "Customer ID"
  /\ df.loaded
  /\ agg.done = {}
  /\ ~wb.open
  /\ outFile = "untouched"

\* ----------------------------------------------------------------- C3
\* The sum of column B over the managers listed on Manager Performance
MgrSheetSum ==
  SumOver(ListedRows(wb.mgr.cells),
          [r \in ListedRows(wb.mgr.cells) |-> Shown(wb.mgr.cells, <<r, 1>>).n])

\* The Sales of the rows of the input whose Manager is missing
BlankManagerSales ==
  SalesSum(SelectSeq(inputFile.rows, LAMBDA r : r.mgr = "NaN"))

\* C3 as stated: the per-manager SUMIF values of the managers listed on the
\* sheet add up to the dataset's total sales, blank managers or not.
C3_SheetSumIsTotal ==
  pc = "done" => MgrSheetSum = agg.total_sales_val

\* C3 as amended: the managers listed on the sheet add up to the total sales
\* less the sales of the rows with a missing Manager (those rows are not
\* listed); the pandas per-manager totals, which keep the blank group, add up
\* to the total sales.
C3_SheetSumIsNamedManagersSales ==
  pc = "done" =>
    /\ MgrSheetSum = SalesSum(inputFile.rows) - BlankManagerSales
    /\ agg.total_sales_val = SalesSum(inputFile.rows)
    /\ SumOver(DOMAIN agg.mgr_totals,
               [i \in DOMAIN agg.mgr_totals |-> agg.mgr_totals[i].v])
         = agg.total_sales_val
    /\ (BlankManagerSales = 0 => MgrSheetSum = agg.total_sales_val)

C3_Witness ==
  /\ pc = "done"
  /\ BlankManagerSales > 0
  /\ Cardinality(ListedRows(wb.mgr.cells)) = 1
  /\ MgrSheetSum > 0
  /\ MgrSheetSum < agg.total_sales_val

\* ----------------------------------------------------------------- C4
TopN == Min2(TOP_N_PRODUCTS, Cardinality({inputFile.rows[i].prod :
                                            i \in DOMAIN inputFile.rows}))

\* The subtotal of the top-N products' sales, from the pandas totals
TopNSubtotal ==
  SumOver(1..TopN, [i \in 1..TopN |-> agg.prod_totals[i].v])

ShareAt(i) ==
  LET f == wb.prod.cells[<<i, 2>>].f
  IN XlDivSum(wb.prod.cells, wb.data, f.ref, f.area)

SharesAreOverSubtotal ==
  /\ \A i \in 1..TopN :
       /\ ~ShareAt(i).err
       /\ ShareAt(i).q.d = TopNSubtotal
       /\ ShareAt(i).q.n =
            SalesSum(SelectSeq(inputFile.rows,
                               LAMBDA r : r.prod = wb.prod.cells[<<i, 0>>].s))
  /\ SumOver(1..TopN, [i \in 1..TopN |-> ShareAt(i).q.n]) = TopNSubtotal

\* C4 as stated: each of the top-N rows shows its product's sales over the
\* top-N subtotal and the shares add up to 1, for every dataset, a top-N
\* subtotal of 0 included.
C4_SharesSumToOne ==
  pc = "done" =>
    /\ ListedRows(wb.prod.cells) = 1..TopN
    /\ SharesAreOverSubtotal

\* C4 as amended: the same when the top-N subtotal is not 0; when it is 0
\* every share cell is a division by zero (#DIV/0!) and there is no sum.
C4_SharesSumToOneUnlessZero ==
  pc = "done" =>
    /\ ListedRows(wb.prod.cells) = 1..TopN
    /\ IF TopNSubtotal # 0 THEN SharesAreOverSubtotal
       ELSE \A i \in 1..TopN : ShareAt(i).err

C4_Witness ==
  /\ pc = "done"
  /\ TopN = TOP_N_PRODUCTS
  /\ Len(agg.prod_totals) > TOP_N_PRODUCTS
  /\ TopNSubtotal # 0
  /\ TopNSubtotal < agg.total_sales_val
  /\ SharesAreOverSubtotal

\* ----------------------------------------------------------------- C5
OrderCount ==
  Cardinality({inputFile.rows[i].oid : i \in DOMAIN inputFile.rows} \ {"NaN"})

ExpectedAverage ==
  IF OrderCount = 0 THEN Ratio(0, 1)
  ELSE Ratio(SalesSum(inputFile.rows), OrderCount)

DashboardAverage ==
  LET f == wb.dash.cells[<<4, 1>>].f
  IN XlIfErrorDiv(wb.data, f.sumCol, f.cntCol)

\* C5: the average order value the program produces (the Findings line and
\* the Dashboard formula) is total sales over the number of distinct Order
\* IDs, and 0 when there are none.
C5_AverageOrderValue ==
  pc = "done" =>
    /\ RatioEq(wb.find.avg_order_value, ExpectedAverage)
    /\ RatioEq(DashboardAverage, ExpectedAverage)

\* ----------------------------------------------------------------- C6
ToyRows ==
  << MkRow(Kinds[1], "A", 100), MkRow(Kinds[1], "B", 200) >>

RankAt(r) ==
  LET f == wb.mgr.cells[<<r, 3>>].f
  IN XlRankDesc(wb.mgr.cells, wb.data, f.ref, f.area)

ManagerSales(name) ==
  SalesSum(SelectSeq(inputFile.rows, LAMBDA row : row.mgr = name))

RowOfManager(name) ==
  CHOOSE r \in ListedRows(wb.mgr.cells) : wb.mgr.cells[<<r, 0>>].s = name

\* C6: every listed manager's Rank is one plus the number of listed managers
\* with strictly greater sales; for the two managers A (100) and B (200) in
\* one year B ranks 1, A ranks 2 and the Total Sales KPI is 300.
C6_RankByGreaterSales ==
  pc = "done" =>
    /\ \A r \in ListedRows(wb.mgr.cells) :
         RankAt(r) =
           1 + Cardinality(
                 {q \in ListedRows(wb.mgr.cells) :
                    ManagerSales(wb.mgr.cells[<<q, 0>>].s)
                      > ManagerSales(wb.mgr.cells[<<r, 0>>].s)})
    /\ inputFile.rows = ToyRows =>
         /\ RankAt(RowOfManager("B")) = 1
         /\ RankAt(RowOfManager("A")) = 2
         /\ Shown(wb.dash.cells, <<1, 1>>) = Num(300)

C6_Witness ==
  /\ pc = "done"
  /\ inputFile.rows = ToyRows
  /\ RowOfManager("A") < RowOfManager("B")
  /\ RankAt(RowOfManager("B")) = 1
  /\ RankAt(RowOfManager("A")) = 2

\* ----------------------------------------------------------------- C7
\* C7: a dataset with all required columns never fails, whatever its Order
\* Date values: the run completes and writes the workbook.
C7_NoOtherFailure ==
  Validated => (pc # "failed" /\ error = NoError)

\* ----------------------------------------------------------------- C8
KpiCells == {<<1, 1>>, <<2, 1>>, <<3, 1>>, <<4, 1>>}

\* C8: each Dashboard KPI is a formula over the Data sheet whose value on the
\* unchanged Data sheet is the aggregate reported on the Findings sheet.
C8_KpisAreEquivalentFormulas ==
  pc = "done" =>
    /\ \A rc \in KpiCells : wb.dash.cells[rc].t = "f"
    /\ Shown(wb.dash.cells, <<1, 1>>) = Num(wb.find.total_sales)
    /\ Shown(wb.dash.cells, <<2, 1>>) = Num(wb.find.total_orders)
    /\ Shown(wb.dash.cells, <<3, 1>>) = Num(wb.find.distinct_managers)
    /\ RatioEq(DashboardAverage, wb.find.avg_order_value)

\* ----------------------------------------------------------------- C9
\* The cells of a sheet below its header row, in one column
BodyCells(cells, col) == {rc \in DOMAIN cells : rc[1] >= 1 /\ rc[2] = col}

SeriesCovers(series, cats, vals) ==
  /\ AreaCells(series.categories) = cats
  /\ AreaCells(series.values) = vals

YearColumns == 1..Len(YearsOf(df.rows))
HelperStart == Len(CategoriesOf(df.rows)) + 3

\* C9: every chart series' categories and values ranges cover all and only
\* the cells the labels and values were written to.
C9_SeriesMatchWrittenCells ==
  pc = "done" =>
    /\ SeriesCovers(wb.mgr.charts[1][1],
                    BodyCells(wb.mgr.cells, 0), BodyCells(wb.mgr.cells, 1))
    /\ SeriesCovers(wb.dash.charts[1][1],
                    BodyCells(wb.mgr.cells, 0), BodyCells(wb.mgr.cells, 1))
    /\ SeriesCovers(wb.prod.charts[1][1],
                    BodyCells(wb.prod.cells, 0), BodyCells(wb.prod.cells, 1))
    /\ SeriesCovers(wb.dash.charts[2][1],
                    BodyCells(wb.prod.cells, 0), BodyCells(wb.prod.cells, 1))
    /\ SeriesCovers(wb.dash.charts[3][1],
                    {rc \in DOMAIN wb.dash.cells :
                       rc[2] = 0 /\ wb.dash.cells[rc].t = "n"},
                    {rc \in DOMAIN wb.dash.cells :
                       rc[2] = 1 /\ rc[1] >= DASH_TABLE_ROW
                       /\ wb.dash.cells[rc].t = "f"})
    /\ \A k \in DOMAIN wb.cat.charts[1] :
         SeriesCovers(wb.cat.charts[1][k],
                      {<<HelperStart - 1, j>> : j \in YearColumns},
                      {<<HelperStart + k - 1, j>> : j \in YearColumns})

\* ----------------------------------------------------------------- C10
ColumnExamples ==
  /\ cin = 0 => cletters = <<"A">>
  /\ cin = 25 => cletters = <<"Z">>
  /\ cin = 26 => cletters = <<"A", "A">>
  /\ cin = 27 => cletters = <<"A", "B">>
  /\ cin = 701 => cletters = <<"Z", "Z">>
  /\ cin = 702 => cletters = <<"A", "A", "A">>

WrittenHeaders == { h \o <<"Year", "Month">> : h \in FullHeaders }

ColumnResult ==
  cpc = "return" =>
    /\ cidx = 0
    /\ \A i \in DOMAIN cletters : cletters[i] \in Range(Letters)
    /\ ColumnIndex(cletters) = cin
    /\ ColumnExamples
    /\ col_idx_to_excel_col(cin) = cletters
    /\ \A h \in WrittenHeaders : \A a, b \in Range(h) :
         /\ ColumnIndex(ExcelColLetters(h)[a]) = IndexOf(h, a)
         /\ a # b => ExcelColLetters(h)[a] # ExcelColLetters(h)[b]

\* C10: col_idx_to_excel_col terminates for every idx >= 0 and returns the
\* column letters of that 0-based index in bijective base 26 (0 -> A,
\* 25 -> Z, 26 -> AA, 27 -> AB, 701 -> ZZ, 702 -> AAA), which read back as a
\* column give idx again, so distinct indices get distinct letters and each
\* Data column gets the letter of its position in the header.
C10_ColumnLetters == []ColumnResult /\ <>(cpc = "return")

C10_Witness ==
  /\ cpc = "return"
  /\ cin = 702
  /\ cletters = <<"A", "A", "A">>

====
